---- MODULE Spec2Model ----
(***************************************************************************)
(* Header statistics of a wiki dump (src/src/header_stats.rs).             *)
(*                                                                         *)
(* HeaderStats::parse pulls pages from a dump parser through               *)
(* map(unwrap) . filter(namespace) . take(page_limit), parses each page,   *)
(* optionally reports the parser's warnings, and walks the node tree with  *)
(* process_nodes, which calls process_header at every Heading it reaches.  *)
(* The recursion of process_nodes is modelled by the list of node          *)
(* sequences still to be iterated (todo): a call pushes its argument, the  *)
(* end of a for loop pops it.                                              *)
(***************************************************************************)
EXTENDS Integers, Sequences, FiniteSets, TLC

VARIABLES
    stream,         \* the records the DumpParser yields, in order
    namespaces,     \* the include-set (parse's namespaces argument)
    page_limit,     \* parse's page_limit argument
    verbose,        \* parse's verbose argument
    pos,            \* number of records read from the DumpParser so far
    remaining,      \* Take's counter n
    pc,             \* "pull" | "warn" | "walk" | "done" | "aborted"
    cur,            \* index in stream of the page being processed (0: none)
    warnings,       \* parser_output.warnings not yet reported
    todo,           \* node sequences process_nodes still has to iterate
    header_counts,  \* HeaderStats.header_counts: key -> HeaderCounts
    events,         \* the (key, level) pairs process_header was called with
    diags,          \* what the verbose loop printed to stderr
    processed       \* indices of the pages the for loop body ran on

vars == <<stream, namespaces, page_limit, verbose, pos, remaining, pc, cur,
          warnings, todo, header_counts, events, diags, processed>>

inputs == <<stream, namespaces, page_limit, verbose>>

\* ------------------------------------------------------------------ bounds

MaxStream == 3
MaxLimit == 2
MaxItems == 2
MaxWarnings == 2

\* --------------------------------------------------------- program constants

MAX_HEADER_LEVEL == 6
MIN_HEADER_LEVEL == 2
HEADER_LEVEL_ARRAY_SIZE == MAX_HEADER_LEVEL - MIN_HEADER_LEVEL + 1

\* ------------------------------------------------------------ sequence helpers

SeqsUpTo(S, n) == UNION {[1..k -> S] : k \in 0..n}

RECURSIVE Flatten(_)
Flatten(ss) == IF ss = <<>> THEN <<>> ELSE Head(ss) \o Flatten(Tail(ss))

Range(s) == {s[i] : i \in 1..Len(s)}

RECURSIVE SumSeq(_)
SumSeq(s) == IF s = <<>> THEN 0 ELSE Head(s) + SumSeq(Tail(s))

Min(a, b) == IF a <= b THEN a ELSE b

\* ------------------------------------------------------------------ node model
\* parse_wiki_text::Node, restricted to the fields process_nodes matches on.

None == [some |-> FALSE]
Some(v) == [some |-> TRUE, val |-> v]

LeafKinds == {"Bold", "BoldItalic", "Category", "CharacterEntity", "Comment",
              "EndTag", "ExternalLink", "HorizontalDivider", "Italic",
              "MagicWord", "ParagraphBreak", "Redirect", "StartTag", "Text"}

ListKinds == {"OrderedList", "UnorderedList"}

Leaf(k) == [kind |-> k]
\* span: the source text the heading's child nodes occupy in page.text
Heading(nodes, span, level) ==
    [kind |-> "Heading", nodes |-> nodes, span |-> span, level |-> level]
Item(nodes) == [nodes |-> nodes]
ListNode(k, items) == [kind |-> k, items |-> items]
NodesNode(k, nodes) == [kind |-> k, nodes |-> nodes]
TextNode(k, text) == [kind |-> k, text |-> text]
Parameter(name, default) ==
    [kind |-> "Parameter", name |-> name, default |-> default]
Cell(attributes, content) == [attributes |-> attributes, content |-> content]
Row(attributes, cells) == [attributes |-> attributes, cells |-> cells]
Table(attributes, captions, rows) ==
    [kind |-> "Table", attributes |-> attributes, captions |-> captions,
     rows |-> rows]
TemplateParameter(name, value) == [name |-> name, value |-> value]
Template(name, parameters) ==
    [kind |-> "Template", name |-> name, parameters |-> parameters]

\* ------------------------------------------------------------- input domains
\* Heading content as it stands in the markup, before trimming.

SP == " "
TAB == "\t"

RawTexts == { <<"A">>, <<SP, "A", TAB, SP>>, <<"B", SP, "B">>, <<TAB, SP>> }

\* Every value of the u8 level on both sides of 2..6.
Levels == 0..(MAX_HEADER_LEVEL + 1)

PlainHeading(span, level) == Heading(<<Leaf("Text")>>, span, level)

hA == PlainHeading(<<SP, "A", TAB, SP>>, 2)
hB == PlainHeading(<<"B", SP, "B">>, 3)
hC == Heading(<<Leaf("Text"), TextNode("Link", <<Leaf("Text")>>)>>, <<"A">>, 6)
hBad == PlainHeading(<<"B", SP, "B">>, 1)

\* What a slot that holds nodes is filled with.
Fill == { <<>>, <<hA>>, <<hB>> }
Fill2 == { <<>>, <<hA>> }
OptFill2 == { None, Some(<<hB>>) }

Headings == { PlainHeading(t, l) : t \in RawTexts, l \in Levels }

Lists ==
    { ListNode(k, items) :
        k \in ListKinds \cup {"DefinitionList"},
        items \in SeqsUpTo({Item(f) : f \in Fill}, MaxItems) }

Containers ==
    { NodesNode(k, f) : k \in {"Preformatted", "Tag"}, f \in Fill }
    \cup { TextNode(k, f) : k \in {"Image", "Link"}, f \in Fill }

Parameters ==
    { Parameter(n, d) : n \in Fill, d \in {None} \cup {Some(f) : f \in Fill} }

TemplateParameters == { TemplateParameter(n, v) : n \in OptFill2, v \in Fill2 }

Templates ==
    { Template(n, ps) : n \in Fill, ps \in SeqsUpTo(TemplateParameters, MaxItems) }

Cells == { Cell(a, c) : a \in OptFill2, c \in Fill2 }

Rows == { Row(a, cs) : a \in Fill2, cs \in SeqsUpTo(Cells, MaxItems) }

Tables ==
    { Table(a, cs, rs) :
        a \in Fill2,
        cs \in {<<>>} \cup {<<c>> : c \in Cells},
        rs \in {<<>>} \cup {<<r>> : r \in Rows} }
    \cup
    { Table(<<>>, <<c1, c2>>, <<r1, r2>>) :
        c1 \in {Cell(None, <<hA>>)}, c2 \in {Cell(Some(<<hB>>), <<hC>>)},
        r1 \in {Row(<<hB>>, <<>>), Row(<<>>, <<Cell(None, <<hC>>)>>)},
        r2 \in {Row(<<hA>>, <<Cell(Some(<<hA>>), <<hB>>)>>)} }

Leaves == { Leaf(k) : k \in LeafKinds }

Shallow == Lists \cup Containers \cup Parameters \cup Templates

\* One more level of nesting: a shallow node inside each kind of slot.
Wrapped ==
    UNION { { TextNode("Link", <<n>>),
              NodesNode("Tag", <<n>>),
              ListNode("UnorderedList", <<Item(<<n>>)>>),
              ListNode("DefinitionList", <<Item(<<n, hC>>)>>),
              Parameter(<<hC>>, Some(<<n>>)),
              Template(<<>>, <<TemplateParameter(None, <<n>>)>>),
              Table(<<>>, <<>>, <<Row(<<>>, <<Cell(None, <<n>>)>>)>>) }
            : n \in Lists \cup Containers \cup Parameters }

\* Node trees in which no Heading lies inside a Heading's content, as the
\* markup grammar has it.
RichTrees ==
    { <<n>> : n \in Headings \cup Leaves \cup Shallow \cup Tables \cup Wrapped }
    \cup { <<n, hC>> : n \in Shallow \cup Leaves \cup {hBad} }
    \cup { <<hC, n>> : n \in Containers \cup Headings }

\* Node trees with a Heading inside a Heading's content.
hNested == Heading(<<Leaf("Text"), hB>>, <<"A">>, 2)
hNestedLink == Heading(<<TextNode("Link", <<hA>>)>>, <<"B", SP, "B">>, 3)

NestedTrees ==
    { <<h>> : h \in {hNested, hNestedLink} }
    \cup { <<h, hA>> : h \in {hNested, hNestedLink} }
    \cup { <<TextNode("Link", <<h>>), hB>> : h \in {hNested, hNestedLink} }

\* Raw namespace codes; KnownCodes are those Namespace::try_from resolves.
Codes == {0, 1, 99}
KnownCodes == {0, 1}
IncludeSets == { {0}, {0, 1} }

DefaultText == <<"=", "A", "=">>

\* A parser warning: byte range and message.
WarningRanges(len) ==
    { [start |-> s, end |-> e, message |-> <<"m", ".">>] :
        s \in 0..(len + 1), e \in 0..(len + 1) }

OrderedRanges(len) == { w \in WarningRanges(len) : w.start <= w.end }

ErrRecord == [kind |-> "err"]
Page(ns, text, nodes, ws) ==
    [kind |-> "page", namespace |-> ns, text |-> text, nodes |-> nodes,
     warnings |-> ws]

SmallTrees == { <<hA>>, <<hB, hBad, hA>> }

PipeRecords ==
    {ErrRecord} \cup { Page(ns, DefaultText, t, <<>>) : ns \in Codes, t \in SmallTrees }

PipeStreams == SeqsUpTo(PipeRecords, MaxStream)

WalkStreams == { <<Page(0, DefaultText, t, <<>>)>> : t \in RichTrees }

NestedStreams == { <<Page(0, DefaultText, t, <<>>)>> : t \in NestedTrees }

WarnStreams ==
    { <<Page(0, DefaultText, <<hA>>, ws)>> :
        ws \in SeqsUpTo(OrderedRanges(Len(DefaultText)), MaxWarnings) }

\* ------------------------------------------------------------- header counts

\* HeaderCounts::new: five zeroed slots.
NewHeaderCounts == [i \in 1..HEADER_LEVEL_ARRAY_SIZE |-> 0]

\* A variant that checks the upper end of the array alone.
IndexPanicsAboveOnly(level) == level - MIN_HEADER_LEVEL >= HEADER_LEVEL_ARRAY_SIZE

\* Index/IndexMut: self.0[index as usize - MIN_HEADER_LEVEL].  Below
\* MIN_HEADER_LEVEL the usize subtraction overflows (a panic with overflow
\* checks, an index near 2^64 without), above MAX_HEADER_LEVEL the index is
\* past the array: the bounds-checked access panics in every build.
IndexPanics(level) ==
    \/ level < MIN_HEADER_LEVEL
    \/ level - MIN_HEADER_LEVEL >= HEADER_LEVEL_ARRAY_SIZE

\* The slot of a level (1-based here, 0-based in the array).
Slot(level) == level - MIN_HEADER_LEVEL + 1

\* header_counts.entry(key).or_insert_with(HeaderCounts::new)
EntryOrInsert(hc, key) ==
    IF key \in DOMAIN hc THEN hc ELSE hc @@ (key :> NewHeaderCounts)

\* value[level] += 1
Increment(hc, key, level) ==
    [hc EXCEPT ![key] = [@ EXCEPT ![Slot(level)] = @ + 1]]

\* ---------------------------------------------------------------- header key

IsTrimChar(c) == c = SP \/ c = TAB

RECURSIVE TrimStart(_)
TrimStart(s) ==
    IF s # <<>> /\ IsTrimChar(Head(s)) THEN TrimStart(Tail(s)) ELSE s

RECURSIVE TrimEnd(_)
TrimEnd(s) ==
    IF s # <<>> /\ IsTrimChar(s[Len(s)])
    THEN TrimEnd(SubSeq(s, 1, Len(s) - 1)) ELSE s

\* str::trim_matches(|c| c == ' ' || c == '\t')
trim_matches(s) == TrimEnd(TrimStart(s))

\* nodes_ext::get_nodes_text: the text the heading's child nodes span.
get_nodes_text(text, heading) == heading.span

HeaderKey(text, heading) == trim_matches(get_nodes_text(text, heading))

\* A variant that stores 1 in the slot instead of adding to it.
process_header_overwrite(hc, key, level) ==
    [EntryOrInsert(hc, key) EXCEPT ![key] = [@ EXCEPT ![Slot(level)] = 1]]

\* process_header once the level indexes a slot.
process_header(hc, key, level) == Increment(EntryOrInsert(hc, key), key, level)

\* ------------------------------------------------------------- page pipeline

\* Namespace::try_from(code).is_ok()
NamespaceResolves(code) == code \in KnownCodes

\* Variants: one without the namespace filter, one that skips what it cannot
\* use instead of panicking.
ClassifyUnfiltered(rec, ns) ==
    IF rec.kind = "err" THEN "err"
    ELSE IF ~NamespaceResolves(rec.namespace) THEN "badns"
    ELSE "page"

ClassifyLenient(rec, ns) ==
    IF rec.kind = "err" THEN "skip"
    ELSE IF ~NamespaceResolves(rec.namespace) THEN "skip"
    ELSE IF rec.namespace \in ns THEN "page"
    ELSE "skip"

\* What map(unwrap_or_else(panic)) and the filter closure make of a record.
Classify(rec, ns) ==
    IF rec.kind = "err" THEN "err"
    ELSE IF ~NamespaceResolves(rec.namespace) THEN "badns"
    ELSE IF rec.namespace \in ns THEN "page"
    ELSE "skip"

\* Filter::next from record i on: the first record the predicate accepts or
\* panics on, or the end of the stream.
RECURSIVE FilterNext(_, _, _)
FilterNext(s, ns, i) ==
    IF i > Len(s) THEN [res |-> "none", at |-> Len(s)]
    ELSE LET c == Classify(s[i], ns)
         IN  IF c = "skip" THEN FilterNext(s, ns, i + 1)
             ELSE [res |-> c, at |-> i]

\* A variant that lets one page more through.
TakeInitOffByOne(limit) == limit + 1

\* .take(page_limit): Take's counter at construction.
TakeInit(limit) == limit

\* Take::next gives None without touching the inner iterator once n is 0.
TakeExhausted(n) == n = 0

Next1 == FilterNext(stream, namespaces, pos + 1)

\* ------------------------------------------------------------------ warnings

RECURSIVE TrimEndDots(_)
TrimEndDots(s) ==
    IF s # <<>> /\ s[Len(s)] = "."
    THEN TrimEndDots(SubSeq(s, 1, Len(s) - 1)) ELSE s

\* (0..len).contains(&start) && (0..len).contains(&end)
InRange(len, w) ==
    /\ 0 <= w.start /\ w.start < len
    /\ 0 <= w.end /\ w.end < len

\* &text[start..end] panics unless start <= end <= len.
SliceOk(text, start, end) == start <= end /\ end <= Len(text)
Slice(text, start, end) == SubSeq(text, start + 1, end)

\* -------------------------------------------------------------- process_nodes
\* The calls of process_nodes each match arm makes, in the order it makes them.

ItemCalls(items) == [i \in 1..Len(items) |-> items[i].nodes]

ParameterCalls(n) ==
    (IF n.default.some THEN <<n.default.val>> ELSE <<>>) \o <<n.name>>

OptCalls(opt) == IF opt.some THEN <<opt.val>> ELSE <<>>

\* A variant that leaves a cell's content out.
CellCallsAttributesOnly(cell) == OptCalls(cell.attributes)

CellCalls(cell) == OptCalls(cell.attributes) \o <<cell.content>>

RowCalls(row) ==
    <<row.attributes>>
    \o Flatten([i \in 1..Len(row.cells) |-> CellCalls(row.cells[i])])

TableCalls(n) ==
    <<n.attributes>>
    \o Flatten([i \in 1..Len(n.captions) |-> CellCalls(n.captions[i])])
    \o Flatten([i \in 1..Len(n.rows) |-> RowCalls(n.rows[i])])

TemplateParameterCalls(p) == OptCalls(p.name) \o <<p.value>>

\* A variant that takes the parameters before the name.
TemplateCallsParametersFirst(n) ==
    Flatten([i \in 1..Len(n.parameters) |->
                TemplateParameterCalls(n.parameters[i])])
    \o <<n.name>>

TemplateCalls(n) ==
    <<n.name>>
    \o Flatten([i \in 1..Len(n.parameters) |->
                    TemplateParameterCalls(n.parameters[i])])

\* A variant that walks the heading's child nodes as well.
HeadingCallsContent(n) == <<n.nodes>>

\* The Heading arm calls process_header and makes no call of process_nodes.
HeadingCalls(n) == <<>>

\* The node the innermost for loop is at, and what is left after it.
AtNode == pc = "walk" /\ todo # <<>> /\ Head(todo) # <<>>
Node == Head(Head(todo))
Rest == <<Tail(Head(todo))>> \o Tail(todo)

\* ----------------------------------------------------------------------- Init

InitInputs ==
    \/ /\ stream \in PipeStreams
       /\ namespaces \in IncludeSets
       /\ page_limit \in 0..MaxLimit
       /\ verbose = FALSE
    \/ /\ stream \in WalkStreams
       /\ namespaces = {0}
       /\ page_limit = 1
       /\ verbose = FALSE
    \/ /\ stream \in WarnStreams
       /\ namespaces = {0}
       /\ page_limit = 1
       /\ verbose \in BOOLEAN

InitNestedInputs ==
    /\ stream \in NestedStreams
    /\ namespaces = {0}
    /\ page_limit = 1
    /\ verbose = FALSE

\* HeaderStats::new, and parse up to its for loop.
InitState ==
    /\ pos = 0
    /\ remaining = TakeInit(page_limit)
    /\ pc = "pull"
    /\ cur = 0
    /\ warnings = <<>>
    /\ todo = <<>>
    /\ header_counts = <<>>
    /\ events = <<>>
    /\ diags = <<>>
    /\ processed = <<>>

Init == InitInputs /\ InitState

InitNested == (InitInputs \/ InitNestedInputs) /\ InitState

\* ---------------------------------------------------------------------- parse

\* for page in parser: Take has handed out page_limit pages.
TakeDone ==
    /\ pc = "pull"
    /\ TakeExhausted(remaining)
    /\ pc' = "done"
    /\ UNCHANGED <<inputs, pos, remaining, cur, warnings, todo, header_counts,
                   events, diags, processed>>

\* for page in parser: the next selected page; configuration.parse(&page.text).
PullPage ==
    /\ pc = "pull"
    /\ ~TakeExhausted(remaining)
    /\ Next1.res = "page"
    /\ pos' = Next1.at
    /\ remaining' = remaining - 1
    /\ cur' = Next1.at
    /\ processed' = Append(processed, Next1.at)
    /\ warnings' = stream[Next1.at].warnings
    /\ pc' = "warn"
    /\ UNCHANGED <<inputs, todo, header_counts, events, diags>>

\* for page in parser: the dump has no further selected page.
PullNone ==
    /\ pc = "pull"
    /\ ~TakeExhausted(remaining)
    /\ Next1.res = "none"
    /\ pos' = Next1.at
    /\ remaining' = remaining - 1
    /\ pc' = "done"
    /\ UNCHANGED <<inputs, cur, warnings, todo, header_counts, events, diags,
                   processed>>

\* panic!("Error while parsing dump: {}", e)
PullDumpError ==
    /\ pc = "pull"
    /\ ~TakeExhausted(remaining)
    /\ Next1.res = "err"
    /\ pos' = Next1.at
    /\ remaining' = remaining - 1
    /\ pc' = "aborted"
    /\ UNCHANGED <<inputs, cur, warnings, todo, header_counts, events, diags,
                   processed>>

\* page.namespace.try_into().unwrap() panics.
PullNamespaceError ==
    /\ pc = "pull"
    /\ ~TakeExhausted(remaining)
    /\ Next1.res = "badns"
    /\ pos' = Next1.at
    /\ remaining' = remaining - 1
    /\ pc' = "aborted"
    /\ UNCHANGED <<inputs, cur, warnings, todo, header_counts, events, diags,
                   processed>>

\* The out-of-range branch of the verbose loop.
ReportOutOfRange ==
    /\ pc = "warn"
    /\ verbose
    /\ warnings # <<>>
    /\ LET w == Head(warnings)
       IN  /\ ~InRange(Len(stream[cur].text), w)
           /\ diags' = Append(diags, [kind |-> "out_of_range", page |-> cur,
                                      start |-> w.start, end |-> w.end,
                                      message |-> TrimEndDots(w.message)])
    /\ warnings' = Tail(warnings)
    /\ UNCHANGED <<inputs, pos, remaining, pc, cur, todo, header_counts,
                   events, processed>>

\* The else branch of the verbose loop: the message and &page.text[start..end].
ReportWarning ==
    /\ pc = "warn"
    /\ verbose
    /\ warnings # <<>>
    /\ LET w == Head(warnings)
           text == stream[cur].text
       IN  /\ InRange(Len(text), w)
           /\ IF SliceOk(text, w.start, w.end)
              THEN /\ diags' = Append(diags, [kind |-> "warning", page |-> cur,
                                       start |-> w.start, end |-> w.end,
                                       message |-> TrimEndDots(w.message),
                                       snippet |-> Slice(text, w.start, w.end)])
                   /\ pc' = pc
              ELSE /\ diags' = Append(diags, [kind |-> "slice_panic", page |-> cur,
                                       start |-> w.start, end |-> w.end])
                   /\ pc' = "aborted"
    /\ warnings' = Tail(warnings)
    /\ UNCHANGED <<inputs, pos, remaining, cur, todo, header_counts, events,
                   processed>>

\* self.process_nodes(&page, &parser_output.nodes)
StartWalk ==
    /\ pc = "warn"
    /\ ~verbose \/ warnings = <<>>
    /\ todo' = <<stream[cur].nodes>>
    /\ warnings' = <<>>
    /\ pc' = "walk"
    /\ UNCHANGED <<inputs, pos, remaining, cur, header_counts, events, diags,
                   processed>>

\* The outermost process_nodes has returned: the loop body ends.
PageDone ==
    /\ pc = "walk"
    /\ todo = <<>>
    /\ pc' = "pull"
    /\ cur' = 0
    /\ UNCHANGED <<inputs, pos, remaining, warnings, todo, header_counts,
                   events, diags, processed>>

\* -------------------------------------------------------------- process_nodes

walkFrame == <<inputs, pos, remaining, pc, cur, warnings, diags, processed>>

\* for node in nodes is over: process_nodes returns.
WalkReturn ==
    /\ pc = "walk"
    /\ todo # <<>>
    /\ Head(todo) = <<>>
    /\ todo' = Tail(todo)
    /\ UNCHANGED <<walkFrame, header_counts, events>>

Descend(calls) ==
    /\ todo' = calls \o Rest
    /\ UNCHANGED <<walkFrame, header_counts, events>>

WalkDefinitionList ==
    /\ AtNode
    /\ Node.kind = "DefinitionList"
    /\ Descend(ItemCalls(Node.items))

WalkHeading ==
    /\ AtNode
    /\ Node.kind = "Heading"
    /\ ~IndexPanics(Node.level)
    /\ LET key == HeaderKey(stream[cur].text, Node)
       IN  /\ header_counts' = process_header(header_counts, key, Node.level)
           /\ events' = Append(events, [key |-> key, level |-> Node.level])
    /\ todo' = HeadingCalls(Node) \o Rest
    /\ UNCHANGED walkFrame

\* process_header: the entry is made, then indexing the record panics.
WalkHeadingPanic ==
    /\ AtNode
    /\ Node.kind = "Heading"
    /\ IndexPanics(Node.level)
    /\ header_counts' =
           EntryOrInsert(header_counts, HeaderKey(stream[cur].text, Node))
    /\ pc' = "aborted"
    /\ UNCHANGED <<inputs, pos, remaining, cur, warnings, todo, events,
                   diags, processed>>

WalkNodes ==
    /\ AtNode
    /\ Node.kind \in {"Preformatted", "Tag"}
    /\ Descend(<<Node.nodes>>)

WalkText ==
    /\ AtNode
    /\ Node.kind \in {"Image", "Link"}
    /\ Descend(<<Node.text>>)

WalkList ==
    /\ AtNode
    /\ Node.kind \in ListKinds
    /\ Descend(ItemCalls(Node.items))

WalkParameter ==
    /\ AtNode
    /\ Node.kind = "Parameter"
    /\ Descend(ParameterCalls(Node))

WalkTable ==
    /\ AtNode
    /\ Node.kind = "Table"
    /\ Descend(TableCalls(Node))

WalkTemplate ==
    /\ AtNode
    /\ Node.kind = "Template"
    /\ Descend(TemplateCalls(Node))

WalkLeaf ==
    /\ AtNode
    /\ Node.kind \in LeafKinds
    /\ Descend(<<>>)

Next ==
    \/ TakeDone
    \/ PullPage
    \/ PullNone
    \/ PullDumpError
    \/ PullNamespaceError
    \/ ReportOutOfRange
    \/ ReportWarning
    \/ StartWalk
    \/ PageDone
    \/ WalkReturn
    \/ WalkDefinitionList
    \/ WalkHeading
    \/ WalkHeadingPanic
    \/ WalkNodes
    \/ WalkText
    \/ WalkList
    \/ WalkParameter
    \/ WalkTable
    \/ WalkTemplate
    \/ WalkLeaf

Spec == Init /\ [][Next]_vars

SpecNested == InitNested /\ [][Next]_vars

\* ======================================================================
\* What the specification says, stated over the inputs alone.
\* ======================================================================

IsPad(s) == \A i \in 1..Len(s) : s[i] \in {SP, TAB}

\* k is s without its leading and trailing spaces and tabs.
IsKeyOf(k, s) ==
    \E i, j \in 0..Len(s) :
        /\ i + j <= Len(s)
        /\ IsPad(SubSeq(s, 1, i))
        /\ IsPad(SubSeq(s, Len(s) - j + 1, Len(s)))
        /\ k = SubSeq(s, i + 1, Len(s) - j)
        /\ k = <<>> \/ (~IsPad(<<k[1]>>) /\ ~IsPad(<<k[Len(k)]>>))

Substrings(s) == { SubSeq(s, a, b) : a \in 1..(Len(s) + 1), b \in 0..Len(s) }

KeyOf(s) == CHOOSE k \in Substrings(s) : IsKeyOf(k, s)

RecordOf(h) == [key |-> KeyOf(h.span), level |-> h.level]

IsPrefix(s, t) == Len(s) <= Len(t) /\ s = SubSeq(t, 1, Len(s))

\* The child node sequences of a node in the order the markup has them;
\* marked: a list item, a table cell's content, a template parameter's value
\* or a link's caption.
Part(nodes, marked) == [nodes |-> nodes, marked |-> marked]

OptPart(opt) == IF opt = None THEN <<>> ELSE <<Part(opt.val, FALSE)>>

CellParts(c, marked) == OptPart(c.attributes) \o <<Part(c.content, marked)>>

RowParts(r) ==
    <<Part(r.attributes, FALSE)>>
    \o Flatten([i \in DOMAIN r.cells |-> CellParts(r.cells[i], TRUE)])

DocParts(n) ==
    CASE n.kind = "Heading" -> <<Part(n.nodes, FALSE)>>
      [] n.kind \in {"DefinitionList", "OrderedList", "UnorderedList"} ->
            [i \in DOMAIN n.items |-> Part(n.items[i].nodes, TRUE)]
      [] n.kind \in {"Preformatted", "Tag"} -> <<Part(n.nodes, FALSE)>>
      [] n.kind = "Link" -> <<Part(n.text, TRUE)>>
      [] n.kind = "Image" -> <<Part(n.text, FALSE)>>
      [] n.kind = "Parameter" -> <<Part(n.name, FALSE)>> \o OptPart(n.default)
      [] n.kind = "Table" ->
            <<Part(n.attributes, FALSE)>>
            \o Flatten([i \in DOMAIN n.captions |->
                            CellParts(n.captions[i], FALSE)])
            \o Flatten([i \in DOMAIN n.rows |-> RowParts(n.rows[i])])
      [] n.kind = "Template" ->
            <<Part(n.name, FALSE)>>
            \o Flatten([i \in DOMAIN n.parameters |->
                   OptPart(n.parameters[i].name)
                   \o <<Part(n.parameters[i].value, TRUE)>>])
      [] OTHER -> <<>>

\* The parts as the walker takes them: a Parameter's default before its name.
Reverse(s) == [i \in DOMAIN s |-> s[Len(s) + 1 - i]]

VisitParts(n) == IF n.kind = "Parameter" THEN Reverse(DocParts(n)) ELSE DocParts(n)

\* Number of Heading nodes anywhere in nodes with key k and level L.
RECURSIVE HeadingCount(_, _, _)
HeadingCount(nodes, k, L) ==
    SumSeq([i \in DOMAIN nodes |->
        (IF nodes[i].kind = "Heading" /\ IsKeyOf(k, nodes[i].span)
            /\ nodes[i].level = L THEN 1 ELSE 0)
        + SumSeq([j \in DOMAIN DocParts(nodes[i]) |->
                    HeadingCount(DocParts(nodes[i])[j].nodes, k, L)])])

\* Number of those that lie, at any depth, inside a marked part.
RECURSIVE MarkedCount(_, _, _, _)
MarkedCount(nodes, k, L, inside) ==
    SumSeq([i \in DOMAIN nodes |->
        (IF nodes[i].kind = "Heading" /\ inside /\ IsKeyOf(k, nodes[i].span)
            /\ nodes[i].level = L THEN 1 ELSE 0)
        + SumSeq([j \in DOMAIN DocParts(nodes[i]) |->
                    MarkedCount(DocParts(nodes[i])[j].nodes, k, L,
                                inside \/ DocParts(nodes[i])[j].marked)])])

\* The headings of nodes that are not inside another heading's content, in
\* document order (byDoc) or in the walker's order.
RECURSIVE Records(_, _)
Records(nodes, byDoc) ==
    Flatten([i \in DOMAIN nodes |->
        IF nodes[i].kind = "Heading" THEN <<RecordOf(nodes[i])>>
        ELSE LET parts == IF byDoc THEN DocParts(nodes[i])
                          ELSE VisitParts(nodes[i])
             IN  Flatten([j \in DOMAIN parts |-> Records(parts[j].nodes, byDoc)])])

\* All heading spans of a node sequence.
RECURSIVE Spans(_)
Spans(nodes) ==
    UNION { (IF nodes[i].kind = "Heading" THEN {nodes[i].span} ELSE {})
            \cup UNION { Spans(DocParts(nodes[i])[j].nodes) :
                            j \in DOMAIN DocParts(nodes[i]) }
            : i \in DOMAIN nodes }

IsPage(i) == stream[i].kind = "page"
IsIncluded(i) == IsPage(i) /\ stream[i].namespace \in namespaces
IsFatal(i) == ~IsPage(i) \/ stream[i].namespace \notin KnownCodes

IncludedIdx == SelectSeq([i \in 1..Len(stream) |-> i], LAMBDA i : IsIncluded(i))

\* The pages parse is to process: the first page_limit included ones.
Selected == SubSeq(IncludedIdx, 1, Min(page_limit, Len(IncludedIdx)))

\* Every key the table holds and every key a heading of the stream has.
AllKeys ==
    DOMAIN header_counts
    \cup { KeyOf(sp) : sp \in UNION { Spans(stream[i].nodes) :
                                       i \in {j \in 1..Len(stream) : IsPage(j)} } }

HeaderLevels == MIN_HEADER_LEVEL..MAX_HEADER_LEVEL

CountAt(hc, k, L) == IF k \in DOMAIN hc THEN hc[k][L - MIN_HEADER_LEVEL + 1] ELSE 0

\* Sum of all slots of all records.
Total(hc) ==
    LET RECURSIVE Sum(_)
        Sum(ks) == IF ks = {} THEN 0
                   ELSE LET k == CHOOSE x \in ks : TRUE
                        IN  SumSeq(hc[k]) + Sum(ks \ {k})
    IN  Sum(DOMAIN hc)

\* ======================================================================
\* Claims
\* ======================================================================

\* C1 (count conservation): when parse has finished, for every key k and
\* every level L in 2..6 the count stored at (k, L) equals the number of
\* Heading nodes, in the trees of the selected pages, whose trimmed content
\* is k and whose level is L; the number of records made is the number of
\* heading nodes.
C1_CountConservation ==
    pc = "done" =>
        /\ \A k \in AllKeys : \A L \in HeaderLevels :
              CountAt(header_counts, k, L) =
                  SumSeq([i \in DOMAIN Selected |->
                            HeadingCount(stream[Selected[i]].nodes, k, L)])
        /\ \A k \in DOMAIN header_counts : DOMAIN header_counts[k] = 1..HEADER_LEVEL_ARRAY_SIZE
        /\ Len(events) = Total(header_counts)

\* A finished run over two pages whose padded headings share one key.
C1_Witness ==
    /\ pc = "done"
    /\ Len(processed) >= 2
    /\ \E k \in DOMAIN header_counts : \E L \in HeaderLevels :
          header_counts[k][L - 1] >= 2

\* C2 (page limit): the pages processed are, at every moment, the first ones
\* of the included pages in stream order, never more than page_limit; a
\* finished run has processed exactly the first page_limit of them (or all,
\* if fewer), and once page_limit pages are taken nothing more is read.
C2_PageLimit ==
    /\ Len(processed) <= page_limit
    /\ IsPrefix(processed, Selected)
    /\ cur # 0 => cur \in Range(Selected)
    /\ pc = "done" => processed = Selected
    /\ Len(processed) = page_limit =>
          pos = (IF page_limit = 0 THEN 0 ELSE Selected[page_limit])

\* The limit is reached with records left upstream, an excluded page skipped.
C2_Witness ==
    /\ pc = "done"
    /\ page_limit >= 1
    /\ Len(processed) = page_limit
    /\ pos < Len(stream)
    /\ Len(IncludedIdx) > page_limit
    /\ \E i \in 1..pos : IsPage(i) /\ ~IsIncluded(i)

\* C3 (namespace filtering): only pages of the include-set are processed, a
\* stream without such a page leaves the table empty, and the pages counted
\* against the limit are the included ones alone.
C3_NamespaceFilter ==
    /\ \A i \in Range(processed) : stream[i].namespace \in namespaces
    /\ cur # 0 => stream[cur].namespace \in namespaces
    /\ IncludedIdx = <<>> => DOMAIN header_counts = {}
    /\ Len(processed) = Cardinality({i \in 1..pos : IsIncluded(i)})
    /\ pc = "done" => Len(processed) = page_limit \/ pos = Len(stream)

\* An excluded page with headings was read before the one page the limit
\* allows, which was then processed.
C3_Witness ==
    /\ pc = "done"
    /\ page_limit = 1
    /\ pos >= 2
    /\ IsPage(1) /\ ~IsIncluded(1) /\ stream[1].nodes # <<>>
    /\ stream[1].namespace \in KnownCodes
    /\ processed = <<pos>>
    /\ DOMAIN header_counts # {}

\* C4 (recursion completeness): in a finished run every heading that lies, at
\* any depth, inside a list item, a table cell, a template parameter value or
\* a link caption of a selected page is counted: the count at its key and
\* level is at least the number of such headings, and no more than the number
\* of headings with that key and level.
C4_RecursionComplete ==
    pc = "done" =>
        \A k \in AllKeys : \A L \in HeaderLevels :
            LET marked == SumSeq([i \in DOMAIN Selected |->
                    MarkedCount(stream[Selected[i]].nodes, k, L, FALSE)])
                all == SumSeq([i \in DOMAIN Selected |->
                    HeadingCount(stream[Selected[i]].nodes, k, L)])
            IN  /\ marked <= CountAt(header_counts, k, L)
                /\ CountAt(header_counts, k, L) <= all

\* A heading two containers deep, inside a table cell, has been counted.
C4_Witness ==
    /\ pc = "done"
    /\ Len(stream) = 1
    /\ IsPage(1)
    /\ stream[1].nodes # <<>>
    /\ stream[1].nodes[1].kind = "Table"
    /\ stream[1].nodes[1].rows # <<>>
    /\ stream[1].nodes[1].rows[1].cells # <<>>
    /\ stream[1].nodes[1].rows[1].cells[1].content # <<>>
    /\ stream[1].nodes[1].rows[1].cells[1].content[1].kind = "UnorderedList"
    /\ \E k \in DOMAIN header_counts : \E L \in HeaderLevels :
          /\ MarkedCount(stream[1].nodes, k, L, FALSE) >= 2
          /\ header_counts[k][L - 1] = MarkedCount(stream[1].nodes, k, L, FALSE)

\* C5 (no recursion into heading content): the step that handles a Heading
\* whose level is in 2..6 makes exactly one record, of the heading's own key
\* at its own level, and goes on with the nodes after the heading: the
\* heading's child nodes are not walked.
C5_HeadingOnce ==
    [][ (AtNode /\ Node.kind = "Heading" /\ Node.level \in HeaderLevels) =>
            /\ events' = Append(events, RecordOf(Node))
            /\ Total(header_counts') = Total(header_counts) + 1
            /\ CountAt(header_counts', KeyOf(Node.span), Node.level) =
                   CountAt(header_counts, KeyOf(Node.span), Node.level) + 1
            /\ todo' = Rest ]_vars

\* A finished run on a heading whose content holds a heading: one record, and
\* none for the inner heading.
C5_Witness ==
    /\ pc = "done"
    /\ Len(stream) = 1
    /\ IsPage(1)
    /\ stream[1].nodes = <<hNestedLink>>
    /\ events = <<RecordOf(hNestedLink)>>
    /\ HeadingCount(stream[1].nodes, KeyOf(hA.span), hA.level) = 1
    /\ CountAt(header_counts, KeyOf(hA.span), hA.level) = 0

\* C6 (fatal page-stream errors): a record that has been read and is a dump
\* error or a page whose namespace code does not resolve is the last record
\* read, the run is aborted, and the record was not processed as a page.
C6_FatalRecords ==
    \A i \in 1..pos :
        IsFatal(i) => i = pos /\ pc = "aborted" /\ i \notin Range(processed)

\* The run aborted at an unresolvable namespace after processing a page, with
\* an included page left behind it.
C6_Witness ==
    /\ pc = "aborted"
    /\ pos >= 2
    /\ pos < Len(stream)
    /\ IsPage(pos)
    /\ stream[pos].namespace \notin KnownCodes
    /\ processed # <<>>
    /\ IsIncluded(pos + 1)
    /\ Len(processed) < page_limit

\* C7 (diagnostic classification): every diagnostic printed is the
\* out-of-range one exactly when the warning's range does not lie within the
\* page text (a range ending at the end of the text lies within it);
\* otherwise it carries text[start..end]; and the run is not aborted by it.
C7_DiagnosticClassification ==
    /\ \A i \in DOMAIN diags :
          LET d == diags[i]
              text == stream[d.page].text
          IN  /\ d.kind = "out_of_range" <=> ~(d.start <= d.end /\ d.end <= Len(text))
              /\ d.kind = "warning" => d.snippet = SubSeq(text, d.start + 1, d.end)
    /\ \A i \in DOMAIN diags : diags[i].kind # "slice_panic"

\* C8 (table invariant): a key is in header_counts exactly when a heading
\* with that key has been recorded at a level in 2..6, and no record has all
\* its slots zero.
C8_TableInvariant ==
    /\ \A k \in DOMAIN header_counts :
          /\ \E i \in DOMAIN header_counts[k] : header_counts[k][i] > 0
          /\ \E j \in DOMAIN events : events[j].key = k
    /\ \A j \in DOMAIN events :
          events[j].key \in DOMAIN header_counts /\ events[j].level \in HeaderLevels

AllRecords(byDoc) ==
    Flatten([i \in DOMAIN processed |-> Records(stream[processed[i]].nodes, byDoc)])

\* C9 (traversal order), as claimed: in a finished run the records made are
\* the reachable headings in document order, a Parameter's name before its
\* default value.
C9_DocumentOrder == pc = "done" => events = AllRecords(TRUE)

\* C9 (traversal order), amended: the records made are at every moment the
\* first of the reachable headings of the pages processed, and in a finished
\* run all of them, in document order except that a Parameter's default value
\* is visited before its name.
C9_WalkOrder ==
    /\ IsPrefix(events, AllRecords(FALSE))
    /\ pc = "done" => events = AllRecords(FALSE)

\* A finished run on a Parameter with different headings in its name and in
\* its default value: the default's record comes first.
C9_Witness ==
    /\ pc = "done"
    /\ Len(stream) = 1
    /\ IsPage(1)
    /\ stream[1].nodes # <<>>
    /\ stream[1].nodes[1].kind = "Parameter"
    /\ stream[1].nodes[1].default # None
    /\ Len(events) >= 2
    /\ events[1] # events[2]
    /\ events[1] = RecordOf(stream[1].nodes[1].default.val[1])
    /\ events[2] = RecordOf(stream[1].nodes[1].name[1])

\* C10 (out-of-range level): the step that handles a Heading whose level is
\* outside 2..6 aborts the run, makes no record and changes no slot of any
\* record; an aborted run takes no further step.
C10_LevelPanic ==
    [][ /\ (AtNode /\ Node.kind = "Heading" /\ Node.level \notin HeaderLevels) =>
            /\ pc' = "aborted"
            /\ events' = events
            /\ Total(header_counts') = Total(header_counts)
            /\ \A k \in DOMAIN header_counts :
                  k \in DOMAIN header_counts' /\ header_counts'[k] = header_counts[k]
        /\ pc # "aborted" ]_vars

\* The run aborted at a level-1 heading after a heading was counted, with a
\* heading and a page still to come.
C10_Witness ==
    /\ pc = "aborted"
    /\ todo # <<>>
    /\ Len(Head(todo)) > 1
    /\ Head(todo)[1].kind = "Heading"
    /\ Head(todo)[1].level < MIN_HEADER_LEVEL
    /\ Head(todo)[2].kind = "Heading"
    /\ events # <<>>
    /\ pos < Len(stream)
    /\ IsIncluded(pos + 1)
    /\ remaining > 0

====
